---- MODULE Spec2Model ----
(***************************************************************************)
(* Verification model of gaurav3000R/mainProject:                          *)
(*   - ConversationMemoryManager (src/src/services/memory.py)              *)
(*   - the chat HTTP handlers that use it (src/src/api/v1/chat.py,         *)
(*     src/src/api/v1/redmine.py)                                          *)
(*   - the Redmine chatbot graph (src/src/agents/graphs/redmine.py)        *)
(*   - the metadata name lookups (src/src/services/redmine_metadata.py)    *)
(***************************************************************************)
EXTENDS Integers, Sequences, FiniteSets, TLC

VARIABLES conversations, metadata, now, run, calls, op, ret, snapshot,
          loader, client, factory, news, limiter

\* the state of the services that the chat handlers never touch
service_vars == <<loader, client, factory, news, limiter>>

\* the state of the chat handlers, the memory manager and the chatbot graph
chat_vars == <<conversations, metadata, now, run, calls, snapshot>>

vars == <<conversations, metadata, now, run, calls, op, ret, snapshot, service_vars>>

(* ------------------------------ bounds --------------------------------- *)

\* max_messages_per_conversation of the manager under check (20 for the
\* global memory_manager; the class takes any value)
max_messages == 2

\* the wall clock takes the values 0..MaxTime
MaxTime == 1

\* message_count is capped at MaxCount by the guards of the adding operations
MaxCount == max_messages + 1

\* POST /redmine/chat is accepted while the stored history has at most
\* MaxStored messages (repeated failing requests grow it without limit)
MaxStored == max_messages

\* tool-calling rounds allowed to the LLM in one graph run
MaxSteps == 1

\* tool calls the LLM may put in one response
MaxToolCalls == 2

\* longest message list a caller hands back to chat/achat
MaxRunLen == 5

\* largest n passed to get_recent_messages
MaxN == max_messages + 1

ConvIds == {"c1", "c2"}

\* the conversation_id values carried by POST /chat and POST /redmine/chat
RequestIds == {"c1"}

Contents == {"a"}

\* entries per metadata list
MaxEntries == 2

Chars == {"a", "A", "b"}

(* ------------------------------ helpers -------------------------------- *)

Min(a, b) == IF a < b THEN a ELSE b

Max(a, b) == IF a > b THEN a ELSE b

Range(s) == {s[i] : i \in 1..Len(s)}

\* Python's seq[start:] for any integer start
PySliceFrom(s, start) ==
    LET lo == IF start < 0 THEN Max(Len(s) + start, 0) ELSE Min(start, Len(s))
    IN  SubSeq(s, lo + 1, Len(s))

\* Python's seq[:stop] for a non-negative stop
PySliceTo(s, stop) == SubSeq(s, 1, Min(stop, Len(s)))

(* ------------------------------ messages ------------------------------- *)

HumanMessage(c) == [type |-> "human", content |-> c, tool_calls |-> 0, tool_call_id |-> 0]

AIMessage(c) == [type |-> "ai", content |-> c, tool_calls |-> 0, tool_call_id |-> 0]

\* the messages a caller can hand to add_message
Messages == {HumanMessage(c) : c \in Contents} \cup {AIMessage(c) : c \in Contents}

SystemMessage == [type |-> "system", content |-> "sys", tool_calls |-> 0, tool_call_id |-> 0]

\* an LLM response: an AIMessage carrying n tool calls
AIResponse(c, n) == [type |-> "ai", content |-> c, tool_calls |-> n, tool_call_id |-> 0]

\* the result of tool call number i of tool-calling round r
ToolMessage(r, i) == [type |-> "tool", content |-> "result", tool_calls |-> 0, tool_call_id |-> 10 * r + i]

NoOp == [name |-> "init", cid |-> "none"]

None == [kind |-> "None"]

(* ------------------- ConversationMemoryManager ------------------------- *)
\* The manager's two dictionaries are the functions conversations and
\* metadata; a store S is the pair [conv |-> ..., meta |-> ...].

Store == [conv |-> conversations, meta |-> metadata]

Put(f, k, v) == [x \in DOMAIN f \cup {k} |-> IF x = k THEN v ELSE f[x]]

Drop(f, k) == [x \in DOMAIN f \ {k} |-> f[x]]

\* get_history without its membership test: a fresh history on every call
get_history_recreate(S, cid, t) ==
    [conv |-> Put(S.conv, cid, <<>>),
     meta |-> Put(S.meta, cid, [created_at |-> t, message_count |-> 0,
                                last_activity |-> t])]

\* get_history: create on first use, then stamp last_activity
get_history(S, cid, t) ==
    LET S1 == IF cid \notin DOMAIN S.conv
              THEN [conv |-> Put(S.conv, cid, <<>>),
                    meta |-> Put(S.meta, cid, [created_at |-> t,
                                               message_count |-> 0,
                                               last_activity |-> t])]
              ELSE S
    IN  [conv |-> S1.conv,
         meta |-> [S1.meta EXCEPT ![cid].last_activity = t]]

\* history.clear() followed by history.add_message(msg) for msg in trimmed
RECURSIVE ReAdd(_, _)
ReAdd(acc, trimmed) ==
    IF trimmed = <<>> THEN acc
    ELSE ReAdd(Append(acc, Head(trimmed)), Tail(trimmed))

\* a trim that slices from the wrong end, messages[:max_messages]
trim_history_keep_oldest(S, cid) ==
    LET h == S.conv[cid]
    IN  IF Len(h) > max_messages
        THEN [S EXCEPT !.conv[cid] = ReAdd(<<>>, PySliceTo(h, max_messages))]
        ELSE S

trim_history(S, cid) ==
    LET h == S.conv[cid]
    IN  IF Len(h) > max_messages
        THEN [S EXCEPT !.conv[cid] = ReAdd(<<>>, PySliceFrom(h, -max_messages))]
        ELSE S

add_message(S, cid, m, t) ==
    LET S1 == get_history(S, cid, t)
        S2 == [S1 EXCEPT !.conv[cid] = Append(@, m),
                         !.meta[cid].message_count = @ + 1]
    IN  trim_history(S2, cid)

add_user_message(S, cid, c, t) == add_message(S, cid, HumanMessage(c), t)

add_ai_message(S, cid, c, t) == add_message(S, cid, AIMessage(c), t)

\* get_messages returns the stored list itself (history.messages)
get_messages(S, cid, t) ==
    LET S1 == get_history(S, cid, t)
    IN  [store |-> S1, messages |-> S1.conv[cid]]

get_recent_messages(S, cid, n, t) ==
    LET g == get_messages(S, cid, t)
    IN  [store |-> g.store,
         messages |-> IF g.messages # <<>> THEN PySliceFrom(g.messages, -n) ELSE <<>>]

\* a clear that forgets the metadata counter
clear_conversation_keeps_count(S, cid) ==
    IF cid \in DOMAIN S.conv
    THEN [S EXCEPT !.conv[cid] = <<>>]
    ELSE S

clear_conversation(S, cid) ==
    IF cid \in DOMAIN S.conv
    THEN [S EXCEPT !.conv[cid] = <<>>, !.meta[cid].message_count = 0]
    ELSE S

\* a delete that leaves the metadata entry behind
delete_conversation_keeps_metadata(S, cid) ==
    IF cid \in DOMAIN S.conv
    THEN [conv |-> Drop(S.conv, cid), meta |-> S.meta]
    ELSE S

delete_conversation(S, cid) ==
    IF cid \in DOMAIN S.conv
    THEN [conv |-> Drop(S.conv, cid), meta |-> Drop(S.meta, cid)]
    ELSE S

\* self._metadata.get(conversation_id, {})
get_conversation_metadata(S, cid) ==
    IF cid \in DOMAIN S.meta THEN S.meta[cid] ELSE [empty |-> TRUE]

list_conversations(S) ==
    {[conversation_id |-> cid,
      created_at |-> S.meta[cid].created_at,
      message_count |-> S.meta[cid].message_count,
      last_activity |-> S.meta[cid].last_activity] : cid \in DOMAIN S.conv}

\* one line per message, "User" for a HumanMessage and "AI" otherwise
get_conversation_summary(S, cid, t) ==
    LET g == get_messages(S, cid, t)
    IN  [store |-> g.store,
         summary |-> IF g.messages = <<>>
                     THEN <<"No messages in conversation">>
                     ELSE [i \in 1..Len(g.messages) |->
                             [role |-> IF g.messages[i].type = "human" THEN "User" ELSE "AI",
                              content |-> g.messages[i].content]]]

(* -------------------------- manager operations ------------------------- *)

\* what the log keeps of a manager call: its name and argument, whether the
\* ID was known and how many messages it held when the call was made
Call(name, cid) ==
    [name |-> name, cid |-> cid,
     known |-> cid \in DOMAIN conversations,
     len |-> IF cid \in DOMAIN conversations THEN Len(conversations[cid]) ELSE 0]

CountOk(cid) == IF cid \in DOMAIN metadata THEN metadata[cid].message_count < MaxCount ELSE TRUE

\* the cap for a request, which adds two messages
RequestCountOk(cid) ==
    IF cid \in DOMAIN metadata THEN metadata[cid].message_count <= MaxCount ELSE TRUE

Commit(S, t) ==
    /\ conversations' = S.conv
    /\ metadata' = S.meta
    /\ now' = t

GetHistory(cid) ==
    \E t \in now..MaxTime :
        /\ Commit(get_history(Store, cid, t), t)
        /\ op' = Call("get_history", cid)
        /\ ret' = [messages |-> conversations'[cid]]
        /\ UNCHANGED <<run, calls, snapshot, service_vars>>

AddMessage(cid, m) ==
    /\ CountOk(cid)
    /\ \E t \in now..MaxTime :
        /\ Commit(add_message(Store, cid, m, t), t)
        /\ op' = Call("add_message", cid) @@ [message |-> m]
        /\ ret' = None
        /\ UNCHANGED <<run, calls, snapshot, service_vars>>

AddUserMessage(cid, c) ==
    /\ CountOk(cid)
    /\ \E t \in now..MaxTime :
        /\ Commit(add_user_message(Store, cid, c, t), t)
        /\ op' = Call("add_user_message", cid) @@ [message |-> HumanMessage(c)]
        /\ ret' = None
        /\ UNCHANGED <<run, calls, snapshot, service_vars>>

AddAiMessage(cid, c) ==
    /\ CountOk(cid)
    /\ \E t \in now..MaxTime :
        /\ Commit(add_ai_message(Store, cid, c, t), t)
        /\ op' = Call("add_ai_message", cid) @@ [message |-> AIMessage(c)]
        /\ ret' = None
        /\ UNCHANGED <<run, calls, snapshot, service_vars>>

GetMessages(cid) ==
    \E t \in now..MaxTime :
        LET g == get_messages(Store, cid, t)
        IN  /\ Commit(g.store, t)
            /\ op' = Call("get_messages", cid)
            /\ ret' = [messages |-> g.messages]
            /\ UNCHANGED <<run, calls, snapshot, service_vars>>

GetRecentMessages(cid, n) ==
    \E t \in now..MaxTime :
        LET g == get_recent_messages(Store, cid, n, t)
        IN  /\ Commit(g.store, t)
            /\ op' = Call("get_recent_messages", cid) @@ [n |-> n]
            /\ ret' = [messages |-> g.messages]
            /\ UNCHANGED <<run, calls, snapshot, service_vars>>

GetConversationSummary(cid) ==
    \E t \in now..MaxTime :
        LET g == get_conversation_summary(Store, cid, t)
        IN  /\ Commit(g.store, t)
            /\ op' = Call("get_conversation_summary", cid)
            /\ ret' = [summary |-> g.summary]
            /\ UNCHANGED <<run, calls, snapshot, service_vars>>

ClearConversation(cid) ==
    /\ Commit(clear_conversation(Store, cid), now)
    /\ op' = Call("clear_conversation", cid)
    /\ ret' = None
    /\ UNCHANGED <<run, calls, snapshot, service_vars>>

DeleteConversation(cid) ==
    /\ Commit(delete_conversation(Store, cid), now)
    /\ op' = Call("delete_conversation", cid)
    /\ ret' = None
    /\ UNCHANGED <<run, calls, snapshot, service_vars>>

GetConversationMetadata(cid) ==
    /\ op' = Call("get_conversation_metadata", cid)
    /\ ret' = [metadata |-> get_conversation_metadata(Store, cid)]
    /\ UNCHANGED <<conversations, metadata, now, run, calls, snapshot, service_vars>>

ListConversations ==
    /\ op' = [name |-> "list_conversations", cid |-> "none"]
    /\ ret' = [conversations |-> list_conversations(Store)]
    /\ UNCHANGED <<conversations, metadata, now, run, calls, snapshot, service_vars>>

ManagerOp ==
    \/ \E cid \in ConvIds : GetHistory(cid)
    \/ \E cid \in ConvIds, m \in Messages : AddMessage(cid, m)
    \/ \E cid \in ConvIds, c \in Contents : AddUserMessage(cid, c)
    \/ \E cid \in ConvIds, c \in Contents : AddAiMessage(cid, c)
    \/ \E cid \in ConvIds : GetMessages(cid)
    \/ \E cid \in ConvIds, n \in 0..MaxN : GetRecentMessages(cid, n)
    \/ \E cid \in ConvIds : GetConversationSummary(cid)
    \/ \E cid \in ConvIds : ClearConversation(cid)
    \/ \E cid \in ConvIds : DeleteConversation(cid)
    \/ \E cid \in ConvIds : GetConversationMetadata(cid)
    \/ ListConversations


(* ----------------------- Redmine chatbot graph ------------------------- *)
\* run is the graph run in flight: pc is the node about to execute,
\* messages the "messages" channel of RedmineChatState, llm_input the list
\* last handed to llm_with_tools.invoke.

END == "end"

IdleRun == [pc |-> "idle", via |-> "none", cid |-> "none", message |-> "none",
            messages |-> <<>>, llm_input |-> <<>>, steps |-> 0]

\* workflow.add_node(...)
nodes == {"chatbot", "tools"}

\* workflow.set_entry_point("chatbot")
entry_point == "chatbot"

\* workflow.add_edge("tools", "chatbot")
edge(n) == IF n = "tools" THEN "chatbot" ELSE END

\* the add_messages reducer on the messages channel
add_messages(left, right) == left \o right

\* a chatbot node that hands the LLM the system prompt and the latest
\* message only
chatbot_input_last_only(messages) ==
    <<SystemMessage>> \o PySliceFrom(messages, -1)

\* messages handed to the LLM by _chatbot_node
chatbot_input(messages) ==
    IF Len(messages) = 1 \/ ~(\E i \in 1..Len(messages) : messages[i].type = "system")
    THEN <<SystemMessage>> \o messages
    ELSE messages

\* the node with the commented-out router switched back on
chatbot_calls_with_router == {"AdaptiveRAGRouter.route", "llm_with_tools.invoke"}

\* the components _chatbot_node invokes
chatbot_calls == {"llm_with_tools.invoke"}

\* a router that tests for the attribute but not for a non-empty list
should_continue_hasattr_only(messages) ==
    LET last_message == messages[Len(messages)]
    IN  IF last_message.type = "ai" THEN "tools" ELSE END

should_continue(messages) ==
    LET last_message == messages[Len(messages)]
    IN  IF last_message.tool_calls > 0 THEN "tools" ELSE END

\* the path map of add_conditional_edges("chatbot", _should_continue, ...)
path_map(r) == IF r = "tools" THEN "tools" ELSE END

\* ToolNode: one ToolMessage per tool call of the last AI message
tool_results(messages, round) ==
    [i \in 1..messages[Len(messages)].tool_calls |-> ToolMessage(round, i)]

\* state = {...} if state is None; state["messages"].append(HumanMessage(...))
StartRun(via, cid, c, messages) ==
    [pc |-> entry_point, via |-> via, cid |-> cid, message |-> c,
     messages |-> messages, llm_input |-> <<>>, steps |-> 0]

ChatbotNode ==
    /\ run.pc = "chatbot"
    /\ \E c \in Contents, n \in 0..MaxToolCalls :
        /\ n > 0 => run.steps < MaxSteps
        /\ LET input == chatbot_input(run.messages)
               messages == add_messages(run.messages, <<AIResponse(c, n)>>)
           IN  run' = [run EXCEPT !.pc = path_map(should_continue(messages)),
                                  !.messages = messages,
                                  !.llm_input = input,
                                  !.steps = IF n > 0 THEN @ + 1 ELSE @]
    /\ calls' = calls \cup chatbot_calls
    /\ op' = [name |-> "chatbot", cid |-> run.cid]
    /\ ret' = None
    /\ UNCHANGED <<conversations, metadata, now, snapshot, service_vars>>

\* llm_with_tools.invoke raises; the exception leaves the graph
ChatbotNodeRaises ==
    /\ run.pc = "chatbot"
    /\ run' = [run EXCEPT !.pc = "failed", !.llm_input = chatbot_input(run.messages)]
    /\ calls' = calls \cup chatbot_calls
    /\ op' = [name |-> "chatbot raises", cid |-> run.cid]
    /\ ret' = None
    /\ UNCHANGED <<conversations, metadata, now, snapshot, service_vars>>

ToolsNode ==
    /\ run.pc = "tools"
    /\ run' = [run EXCEPT !.pc = edge("tools"),
                          !.messages = add_messages(@, tool_results(@, run.steps))]
    /\ calls' = calls \cup {"ToolNode"}
    /\ op' = [name |-> "tools", cid |-> run.cid]
    /\ ret' = None
    /\ UNCHANGED <<conversations, metadata, now, snapshot, service_vars>>

GraphStep == ChatbotNode \/ ChatbotNodeRaises \/ ToolsNode

\* AdaptiveRedmineChatbot.chat / achat called directly, with state None or
\* with the state a previous call returned
ChatCall(via, c, with_state) ==
    /\ run.pc = "idle"
    /\ with_state => /\ op.name = "chat returns"
                     /\ Len(ret.messages) <= MaxRunLen
    /\ run' = StartRun(via, "direct", c,
                       Append(IF with_state THEN ret.messages ELSE <<>>, HumanMessage(c)))
    /\ calls' = {}
    /\ op' = [name |-> via, cid |-> "direct"]
    /\ ret' = None
    /\ UNCHANGED <<conversations, metadata, now, snapshot, service_vars>>

ChatReturns ==
    /\ run.pc = END
    /\ run.via \in {"chat", "achat"}
    /\ op' = [name |-> "chat returns", cid |-> "direct"]
    /\ ret' = [messages |-> run.messages]
    /\ run' = IdleRun
    /\ UNCHANGED <<conversations, metadata, now, calls, snapshot, service_vars>>

ChatRaises ==
    /\ run.pc = "failed"
    /\ run.via \in {"chat", "achat"}
    /\ op' = [name |-> "chat raises", cid |-> "direct"]
    /\ ret' = None
    /\ run' = IdleRun
    /\ UNCHANGED <<conversations, metadata, now, calls, snapshot, service_vars>>

DirectChat ==
    \/ \E via \in {"chat", "achat"}, c \in Contents, w \in BOOLEAN : ChatCall(via, c, w)
    \/ ChatReturns
    \/ ChatRaises


(* ------------------------- POST /redmine/chat -------------------------- *)

\* chat_with_redmine up to its await: the history is read, the chatbot is
\* built, and achat appends the user message to state["messages"].  When the
\* history is not empty, state["messages"] is the list get_messages
\* returned, which is the list the manager stores.
redmine_chat_begin(S, cid, c, t) ==
    LET g == get_messages(S, cid, t)
        history_messages == g.messages
    IN  IF history_messages # <<>>
        THEN LET appended == Append(history_messages, HumanMessage(c))
             IN  [store |-> [g.store EXCEPT !.conv[cid] = appended],
                  messages |-> appended]
        ELSE [store |-> g.store, messages |-> <<HumanMessage(c)>>]

\* the names of the tool calls found in result["messages"]
result_tool_calls(messages) ==
    LET F[i \in 0..Len(messages)] ==
            IF i = 0 THEN 0 ELSE F[i - 1] + messages[i].tool_calls
    IN  F[Len(messages)]

RedmineChatStart(cid, c) ==
    /\ run.pc = "idle"
    /\ cid \in DOMAIN conversations => Len(conversations[cid]) <= MaxStored
    /\ \E t \in now..MaxTime :
        LET b == redmine_chat_begin(Store, cid, c, t)
        IN  /\ Commit(b.store, t)
            /\ run' = StartRun("POST /redmine/chat", cid, c, b.messages)
            /\ calls' = {}
            /\ op' = [name |-> "POST /redmine/chat", cid |-> cid]
            /\ ret' = None
            /\ UNCHANGED <<snapshot, service_vars>>

\* AdaptiveRedmineChatbot(llm) raises after the history was read
RedmineChatBuildRaises(cid) ==
    /\ run.pc = "idle"
    /\ \E t \in now..MaxTime :
        /\ Commit(get_messages(Store, cid, t).store, t)
        /\ op' = [name |-> "POST /redmine/chat 500", cid |-> cid]
        /\ ret' = [status |-> 500]
        /\ UNCHANGED <<run, calls, snapshot, service_vars>>

\* the graph returned: save the turn and answer
RedmineChatFinish ==
    /\ run.pc = END
    /\ run.via = "POST /redmine/chat"
    /\ RequestCountOk(run.cid)
    /\ \E t \in now..MaxTime :
        LET last_message == run.messages[Len(run.messages)]
            response_content == last_message.content
            S1 == add_user_message(Store, run.cid, run.message, t)
            S2 == add_ai_message(S1, run.cid, response_content, t)
        IN  /\ Commit(S2, t)
            /\ op' = [name |-> "POST /redmine/chat 200", cid |-> run.cid]
            /\ ret' = [status |-> 200, message |-> response_content,
                       tool_calls |-> result_tool_calls(run.messages),
                       message_count |-> Len(run.messages)]
            /\ run' = IdleRun
            /\ UNCHANGED <<calls, snapshot, service_vars>>

\* the graph raised: except Exception -> HTTPException(500)
RedmineChatFails ==
    /\ run.pc = "failed"
    /\ run.via = "POST /redmine/chat"
    /\ op' = [name |-> "POST /redmine/chat 500", cid |-> run.cid]
    /\ ret' = [status |-> 500]
    /\ run' = IdleRun
    /\ UNCHANGED <<conversations, metadata, now, calls, snapshot, service_vars>>

RedmineChat ==
    \/ \E cid \in RequestIds, c \in Contents : RedmineChatStart(cid, c)
    \/ \E cid \in RequestIds : RedmineChatBuildRaises(cid)
    \/ RedmineChatFinish
    \/ RedmineChatFails

(* ------------------------------ POST /chat ----------------------------- *)

\* chat() up to graph.invoke: history_messages is the stored list, so the
\* append done by add_user_message shows in it (a trim rebinds the stored
\* list only after the append).
chat_begin(S, cid, c, t) ==
    LET g == get_messages(S, cid, t)
        S1 == add_user_message(g.store, cid, c, t)
        history_messages == Append(g.messages, HumanMessage(c))
    IN  [store |-> S1,
         history_messages |-> history_messages,
         all_messages |-> history_messages \o <<HumanMessage(c)>>]

\* history_messages when the response is built: unless the trim after the
\* user message gave the history a new list, add_ai_message appended the
\* reply to the list history_messages names
history_messages_at_return(b, r) ==
    IF Len(b.history_messages) > max_messages THEN b.history_messages
    ELSE Append(b.history_messages, AIMessage(r))

\* the whole handler; graph.invoke is synchronous, so nothing interleaves
ChatRequest(cid, c) ==
    /\ RequestCountOk(cid)
    /\ \E t \in now..MaxTime, r \in Contents, has_tool_calls \in BOOLEAN :
        LET b == chat_begin(Store, cid, c, t)
            S2 == add_ai_message(b.store, cid, r, t)
        IN  /\ Commit(S2, t)
            /\ op' = [name |-> "POST /chat 200", cid |-> cid, message |-> c]
            /\ ret' = [status |-> 200, message |-> r,
                       graph_input |-> b.all_messages,
                       message_count |-> get_conversation_metadata(S2, cid).message_count,
                       has_tool_calls |-> has_tool_calls,
                       history_length |-> Len(history_messages_at_return(b, r))]
            /\ UNCHANGED <<run, calls, snapshot, service_vars>>

\* building or invoking the graph raised: the user message stays stored
ChatRequestFails(cid, c) ==
    /\ CountOk(cid)
    /\ \E t \in now..MaxTime :
        LET b == chat_begin(Store, cid, c, t)
        IN  /\ Commit(b.store, t)
            /\ op' = [name |-> "POST /chat 500", cid |-> cid]
            /\ ret' = [status |-> 500]
            /\ UNCHANGED <<run, calls, snapshot, service_vars>>

Chat ==
    \/ \E cid \in RequestIds, c \in Contents : ChatRequest(cid, c)
    \/ \E cid \in RequestIds, c \in Contents : ChatRequestFails(cid, c)


(* --------------------------- RedmineMetadataLoader --------------------- *)
\* snapshot holds the loader's four lists.  An entry is a dict of the JSON
\* file: it has an id and may or may not have a "name" key; strings are
\* sequences of characters.

SeqsUpTo(S, n) == UNION {[1..k -> S] : k \in 0..n}

\* names of one or two characters; queries may also be empty
Names == {<<x>> : x \in Chars} \cup {<<x, y>> : x \in Chars, y \in Chars}

Queries == {<<>>} \cup Names

Entries == [has_name : {TRUE}, name : Names] \cup {[has_name |-> FALSE, name |-> <<>>]}

\* the lists a metadata file can hold; ids follow the position in the file
Lists ==
    {[i \in 1..Len(l) |-> [id |-> i, has_name |-> l[i].has_name, name |-> l[i].name]] :
        l \in SeqsUpTo(Entries, MaxEntries)}

Reverse(l) == [i \in 1..Len(l) |-> l[Len(l) + 1 - i]]

\* the four lists of one file: they differ in order and in length
Snapshots ==
    {[projects |-> l, statuses |-> Reverse(l),
      priorities |-> PySliceFrom(l, 1), trackers |-> PySliceFrom(Reverse(l), 1)] : l \in Lists}

\* str.lower() on one character and on a string
LowerChar(c) == IF c = "A" THEN "a" ELSE c

lower(str) == [i \in 1..Len(str) |-> LowerChar(str[i])]

\* Python's "needle in hay" on strings
str_in(needle, hay) ==
    \E i \in 0..(Len(hay) - Len(needle)) : SubSeq(hay, i + 1, i + Len(needle)) = needle

\* entry.get('name', '')
get_name(entry) == IF entry.has_name THEN entry.name ELSE <<>>

\* for entry in entries: if name_lower in entry.get('name', '').lower(): return entry
RECURSIVE first_match(_, _)
first_match(entries, name_lower) ==
    IF entries = <<>> THEN None
    ELSE IF str_in(name_lower, lower(get_name(Head(entries)))) THEN Head(entries)
    ELSE first_match(Tail(entries), name_lower)

\* the same loop comparing against the name as stored, without lower()
RECURSIVE first_match_case_sensitive(_, _)
first_match_case_sensitive(entries, name_lower) ==
    IF entries = <<>> THEN None
    ELSE IF str_in(name_lower, get_name(Head(entries))) THEN Head(entries)
    ELSE first_match_case_sensitive(Tail(entries), name_lower)

get_project_by_name_case_sensitive(S, name) ==
    first_match_case_sensitive(S.projects, lower(name))

get_project_by_name(S, name) == first_match(S.projects, lower(name))

get_status_by_name(S, name) == first_match(S.statuses, lower(name))

get_priority_by_name(S, name) == first_match(S.priorities, lower(name))

get_tracker_by_name(S, name) == first_match(S.trackers, lower(name))

Lookup(kind, name, result) ==
    /\ op' = [name |-> kind, cid |-> "none", query |-> name]
    /\ ret' = [result |-> result]
    /\ UNCHANGED <<conversations, metadata, now, run, calls, snapshot, service_vars>>

GetProjectByName(name) ==
    Lookup("get_project_by_name", name, get_project_by_name(snapshot, name))

GetStatusByName(name) ==
    Lookup("get_status_by_name", name, get_status_by_name(snapshot, name))

GetPriorityByName(name) ==
    Lookup("get_priority_by_name", name, get_priority_by_name(snapshot, name))

GetTrackerByName(name) ==
    Lookup("get_tracker_by_name", name, get_tracker_by_name(snapshot, name))

MetadataOp ==
    \/ \E name \in Queries : GetProjectByName(name)
    \/ \E name \in Queries : GetStatusByName(name)
    \/ \E name \in Queries : GetPriorityByName(name)
    \/ \E name \in Queries : GetTrackerByName(name)

(* --------------------- RedmineMetadataLoader.load_metadata ------------- *)
\* loader holds the metadata file and the loader's fields.  A JSON value
\* keeps its Python type, since the loader stores whatever the file holds.

Raised(exc) == [kind |-> "raise", exc |-> exc]

Exceptions ==
    {"TypeError", "AttributeError", "KeyError", "ValueError", "HTTPStatusError",
     "ConfigurationException", "NameError", "LLMException", "OSError"}

IsRaised(x) == x \in {Raised(e) : e \in Exceptions}

JNull == [type |-> "null"]

JNumber(n) == [type |-> "number", value |-> n]

JString(s) == [type |-> "string", value |-> s]

\* a JSON object is a function from its keys to their values
JObject(fields) == [type |-> "object", fields |-> fields]

JArray(items) == [type |-> "array", items |-> items]

\* Python's truth value: "if not self.projects"
truthy(v) ==
    CASE v.type = "null" -> FALSE
      [] v.type = "number" -> v.value # 0
      [] v.type = "string" -> v.value # <<>>
      [] v.type = "object" -> DOMAIN v.fields # {}
      [] v.type = "array" -> v.items # <<>>

\* values with a len()
sized(v) == v.type \in {"string", "object", "array"}

\* d.get(key, default) on a value d; only a dict has .get
dict_get(d, key, default) ==
    IF d.type # "object" THEN Raised("AttributeError")
    ELSE IF key \in DOMAIN d.fields THEN d.fields[key]
    ELSE default

\* self.metadata.get('endpoints', {}).get(method, {}).get('data', [])
data_of(top, method) ==
    LET endpoints == dict_get(top, "endpoints", JObject(<<>>))
    IN  IF IsRaised(endpoints) THEN endpoints
        ELSE LET entry == dict_get(endpoints, method, JObject(<<>>))
             IN  IF IsRaised(entry) THEN entry
                 ELSE dict_get(entry, "data", JArray(<<>>))

\* the four assignments of load_metadata, in their order
Slots ==
    << [field |-> "projects", method |-> "getProjects"],
       [field |-> "statuses", method |-> "getIssueStatuses"],
       [field |-> "priorities", method |-> "getPriorities"],
       [field |-> "trackers", method |-> "getTrackers"] >>

Fields == {Slots[k].field : k \in 1..Len(Slots)}

\* assignments k.. of load_metadata; the first one that raises ends the
\* try block and leaves the earlier assignments in place
RECURSIVE extract(_, _)
extract(L, k) ==
    IF k > Len(Slots)
    THEN [L EXCEPT !.log =
            IF sized(L.projects) /\ sized(L.statuses) /\ sized(L.priorities)
            THEN "info" ELSE "error"]
    ELSE LET v == data_of(L.metadata, Slots[k].method)
         IN  IF IsRaised(v) THEN [L EXCEPT !.log = "error"]
             ELSE extract([L EXCEPT ![Slots[k].field] = v], k + 1)

\* a missing file returns early; open() or json.load() raising is caught
load_metadata(L) ==
    IF L.file.kind = "missing" THEN [L EXCEPT !.log = "warning"]
    ELSE IF L.file.kind \in {"unreadable", "not_json"} THEN [L EXCEPT !.log = "error"]
    ELSE extract([L EXCEPT !.metadata = L.file.top], 1)

\* __init__ up to the call of load_metadata
NewLoader(file) ==
    [file |-> file, metadata |-> JObject(<<>>), projects |-> JArray(<<>>),
     statuses |-> JArray(<<>>), priorities |-> JArray(<<>>), trackers |-> JArray(<<>>),
     log |-> "none", loaded |-> FALSE]

\* "for x in v: if name_lower in x.get('name', '').lower(): return x"
\* followed by "return None"; iterating a str or a dict yields str items
by_name(v, name) ==
    CASE v.type = "array" -> first_match(v.items, lower(name))
      [] v.type \in {"null", "number"} -> Raised("TypeError")
      [] v.type \in {"string", "object"} ->
            IF truthy(v) THEN Raised("AttributeError") ELSE None

\* a returned string
Text(s) == [text |-> s]

NoneAvailable ==
    [projects |-> Text("No projects available."), statuses |-> Text("No statuses available."),
     priorities |-> Text("No priorities available."), trackers |-> Text("No trackers available.")]

\* get_all_projects_summary and get_all_<field>_formatted
formatted(field, v) ==
    IF ~truthy(v) THEN NoneAvailable[field]
    ELSE IF v.type # "array" THEN Raised("TypeError")
    ELSE IF \E i \in 1..Len(v.items) : ~v.items[i].has_name THEN Raised("KeyError")
    ELSE [text |-> "Available", listing |-> field, entries |-> v.items]

ByNameOps ==
    [projects |-> "get_project_by_name", statuses |-> "get_status_by_name",
     priorities |-> "get_priority_by_name", trackers |-> "get_tracker_by_name"]

FormattedOps ==
    [projects |-> "get_all_projects_summary", statuses |-> "get_all_statuses_formatted",
     priorities |-> "get_all_priorities_formatted", trackers |-> "get_all_trackers_formatted"]

\* the values a "data" key holds in the files under check
DataValues ==
    {JNull, JNumber(1), JString(<<>>), JObject([projects |-> JArray(<<>>)]), JArray(<<>>),
     JArray(<<[id |-> 1, has_name |-> TRUE, name |-> <<"a">>]>>)}

\* one endpoint entry: not a dict, the entry written after a failed fetch
\* (no "data" key), or an entry with data
EndpointEntries ==
    {JNull, JObject([status |-> JString(<<"b">>)])} \cup {JObject([data |-> v]) : v \in DataValues}

MethodNames == {Slots[k].method : k \in 1..Len(Slots)}

EndpointsValues ==
    {JNull} \cup {JObject(f) : f \in UNION {[D -> EndpointEntries] : D \in SUBSET MethodNames}}

Files ==
    {[kind |-> "missing"], [kind |-> "unreadable"], [kind |-> "not_json"],
     [kind |-> "json", top |-> JNull], [kind |-> "json", top |-> JArray(<<>>)],
     [kind |-> "json", top |-> JObject(<<>>)]}
    \cup {[kind |-> "json", top |-> JObject([endpoints |-> e])] : e \in EndpointsValues}

LoaderQueries == {<<"a">>, <<"b">>}

LoaderCall(name) ==
    /\ op' = [name |-> name, cid |-> "none"]
    /\ UNCHANGED <<chat_vars, client, factory, news, limiter>>

LoadMetadata ==
    /\ loader' = [load_metadata(loader) EXCEPT !.loaded = TRUE]
    /\ ret' = None
    /\ LoaderCall("load_metadata")

LoaderByName(field, name) ==
    /\ loader.loaded
    /\ ret' = by_name(loader[field], name)
    /\ LoaderCall(ByNameOps[field])
    /\ UNCHANGED loader

LoaderFormatted(field) ==
    /\ loader.loaded
    /\ ret' = formatted(field, loader[field])
    /\ LoaderCall(FormattedOps[field])
    /\ UNCHANGED loader

LoaderOp ==
    \/ LoadMetadata
    \/ \E field \in Fields, name \in LoaderQueries : LoaderByName(field, name)
    \/ \E field \in Fields : LoaderFormatted(field)

(* ------------------------ redmine_tools, enhanced_tools ---------------- *)
\* client.configured tells whether redmine_client is an object or None;
\* client.calls lists the client methods the last tool call invoked.

\* a returned string that starts with "Error": "Error" + what + str(e)
ErrorText(what, exc) == [head |-> "Error", text |-> what, exc |-> exc]

StartsWithError(r) == "head" \in DOMAIN r /\ r.head = "Error"

IsText(r) == "text" \in DOMAIN r

\* the outcome of a tool body: what it returned or raised, and the client
\* methods it invoked
Outcome(result, used) == [result |-> result, calls |-> used]

\* redmine_client.<method>(...): attribute access on None raises before any
\* request; otherwise the request's outcome is the result
call(cl, method, outcome) ==
    IF cl.configured THEN Outcome(outcome, <<method>>)
    ELSE Outcome(Raised("AttributeError"), <<>>)

\* str.isdigit()
IsDigit(c) == c \in {"1", "2"}

isdigit(s) == s # <<>> /\ \A i \in 1..Len(s) : IsDigit(s[i])

\* str.replace("-", "")
remove_hyphens(s) == SelectSeq(s, LAMBDA c : c # "-")

\* int(s) succeeds: an optional sign, then digits
is_int(s) == isdigit(s) \/ (s # <<>> /\ Head(s) = "-" /\ isdigit(Tail(s)))

null == <<"n", "u", "l", "l">>

\* "None if project_id == 'null' or not project_id else int(project_id)"
project_id_parses(project_id) == project_id = null \/ project_id = <<>> \/ is_int(project_id)

has_keys(item, keys) == item.type = "object" /\ keys \subseteq DOMAIN item.fields

\* the formatting loop reads item[key] for each key of keys
format_items(items, keys, text) ==
    IF \E i \in 1..Len(items) : ~has_keys(items[i], keys) THEN Raised("KeyError")
    ELSE [text |-> text, n |-> Len(items)]

\* parse, fetch one list, "if not <list>: return ...", format
list_body(cl, parses, method, outcome, none_found, keys, text) ==
    IF ~parses THEN Outcome(Raised("ValueError"), <<>>)
    ELSE LET c == call(cl, method, outcome)
         IN  Outcome(IF IsRaised(c.result) THEN c.result
                     ELSE IF ~truthy(c.result) THEN none_found
                     ELSE format_items(c.result.items, keys, text),
                     c.calls)

get_redmine_projects_body(cl, limit, outcome) ==
    list_body(cl, is_int(limit), "get_projects", outcome,
              Text("No projects found."), {"name", "id"}, "Found {n} projects:")

get_redmine_issues_body(cl, project_id, limit, outcome) ==
    list_body(cl, project_id_parses(project_id) /\ is_int(limit), "get_issues", outcome,
              Text("No {status} issues found."), {"id", "subject"}, "Found {n} issues:")

get_redmine_time_entries_body(cl, project_id, limit, outcome) ==
    list_body(cl, project_id_parses(project_id) /\ is_int(limit), "get_time_entries", outcome,
              Text("No time entries found."), {}, "Found {n} time entries:")

search_redmine_issues_body(cl, limit, outcome) ==
    list_body(cl, is_int(limit), "get_issues", outcome,
              Text("No issues found matching '{query}'."), {"id", "subject"},
              "Found {n} issues matching '{query}':")

NotValidIssueId(issue_id) ==
    [head |-> "Error",
     text |-> ": '{issue_id}' is not a valid issue ID. Issue IDs must be numbers. If you're looking for an issue by name, use search_redmine_issues tool instead.",
     issue_id |-> issue_id]

\* the validation strips every hyphen before isdigit(); int() then parses
\* the string as it was given
get_redmine_issue_details_body(cl, issue_id, outcome) ==
    IF ~isdigit(remove_hyphens(issue_id)) THEN Outcome(NotValidIssueId(issue_id), <<>>)
    ELSE IF ~is_int(issue_id) THEN Outcome(Raised("ValueError"), <<>>)
    ELSE LET c == call(cl, "get_issue", outcome)
         IN  Outcome(IF IsRaised(c.result) THEN c.result
                     ELSE IF ~truthy(c.result) THEN Text("Issue #{issue_id} not found.")
                     ELSE IF ~has_keys(c.result, {"id", "subject"}) THEN Raised("KeyError")
                     ELSE Text("**Issue #{id}: {subject}**"),
                     c.calls)

\* result.get("issue", {}).get("id")
create_redmine_issue_body(cl, project_id, outcome) ==
    IF ~is_int(project_id) THEN Outcome(Raised("ValueError"), <<>>)
    ELSE LET c == call(cl, "create_issue", outcome)
             issue == dict_get(c.result, "issue", JObject(<<>>))
             issue_id == dict_get(issue, "id", JNull)
         IN  Outcome(IF IsRaised(c.result) THEN c.result
                     ELSE IF IsRaised(issue) THEN issue
                     ELSE IF IsRaised(issue_id) THEN issue_id
                     ELSE Text("Successfully created issue #{issue_id}: {subject}"),
                     c.calls)

\* statuses are fetched only "if status"; s['name'] is read while searching
\* (the fetched lists under check hold at most one status)
update_redmine_issue_body(cl, issue_id, with_status, statuses, outcome) ==
    IF ~is_int(issue_id) THEN Outcome(Raised("ValueError"), <<>>)
    ELSE LET s == IF with_status THEN call(cl, "get_issue_statuses", statuses)
                  ELSE Outcome(JArray(<<>>), <<>>)
             searched == IF IsRaised(s.result) THEN s.result
                         ELSE format_items(s.result.items, {"name"}, "status_id")
             c == call(cl, "update_issue", outcome)
         IN  IF IsRaised(searched) THEN Outcome(searched, s.calls)
             ELSE Outcome(IF IsRaised(c.result) THEN c.result
                          ELSE Text("Successfully updated issue #{issue_id}"),
                          s.calls \o c.calls)

\* three requests in a row; the first that raises ends the body
get_redmine_metadata_body(cl, statuses, priorities, trackers) ==
    LET s == call(cl, "get_issue_statuses", statuses)
        p == call(cl, "get_priorities", priorities)
        t == call(cl, "get_trackers", trackers)
    IN  IF IsRaised(s.result) THEN s
        ELSE IF IsRaised(p.result) THEN Outcome(p.result, s.calls \o p.calls)
        ELSE IF IsRaised(t.result) THEN Outcome(t.result, s.calls \o p.calls \o t.calls)
        ELSE Outcome(format_items(s.result.items \o p.result.items \o t.result.items,
                                  {"name", "id"}, "**Issue Statuses:**"),
                     s.calls \o p.calls \o t.calls)

\* an except clause that catches ValueError only
guarded_value_error_only(body, what) ==
    IF body.result = Raised("ValueError")
    THEN Outcome(ErrorText(what, body.result.exc), body.calls)
    ELSE body

\* the except clause of every tool: "return f'Error<what>{str(e)}'"
guarded(body, what) ==
    IF IsRaised(body.result) THEN Outcome(ErrorText(what, body.result.exc), body.calls)
    ELSE body

\* search_projects: name, description or identifier contains the query; an
\* entry holds neither description nor identifier, and '' contains the
\* empty query only, which every name contains too
search_projects(v, query) ==
    CASE v.type = "array" ->
            [matches |-> SelectSeq(v.items, LAMBDA p : str_in(lower(query), lower(get_name(p))))]
      [] v.type \in {"null", "number"} -> Raised("TypeError")
      [] v.type \in {"string", "object"} ->
            IF truthy(v) THEN Raised("AttributeError") ELSE [matches |-> <<>>]

\* look an entry up by name; without a match append the formatted listing
by_name_tool(L, field, name, not_found, found) ==
    LET entry == by_name(L[field], name)
        available == formatted(field, L[field])
    IN  Outcome(IF IsRaised(entry) THEN entry
                ELSE IF entry = None
                THEN IF IsRaised(available) THEN available
                     ELSE [text |-> not_found, available |-> available]
                ELSE IF ~entry.has_name THEN Raised("KeyError")
                ELSE Text(found),
                <<>>)

get_project_info_by_name_body(L, project_name) ==
    by_name_tool(L, "projects", project_name,
                 "Project '{project_name}' not found.", "**{name}** (ID: {id})")

get_status_id_by_name_body(L, status_name) ==
    by_name_tool(L, "statuses", status_name,
                 "Status '{status_name}' not found.", "Status: **{name}** -> ID: {id}")

get_priority_id_by_name_body(L, priority_name) ==
    by_name_tool(L, "priorities", priority_name,
                 "Priority '{priority_name}' not found.", "Priority: **{name}** -> ID: {id}")

list_all_available_resources_body(L) ==
    LET raised == {f \in Fields : IsRaised(formatted(f, L[f]))}
        first == CHOOSE k \in 1..Len(Slots) :
                    /\ Slots[k].field \in raised
                    /\ \A j \in 1..(k - 1) : Slots[j].field \notin raised
    IN  Outcome(IF raised = {} THEN Text("**YOUR REDMINE RESOURCES**")
                ELSE formatted(Slots[first].field, L[Slots[first].field]),
                <<>>)

search_projects_by_keyword_body(L, keyword) ==
    LET found == search_projects(L.projects, keyword)
        available == formatted("projects", L.projects)
    IN  Outcome(IF IsRaised(found) THEN found
                ELSE IF found.matches = <<>>
                THEN IF IsRaised(available) THEN available
                     ELSE [text |-> "No projects found matching '{keyword}'.",
                           available |-> available]
                ELSE IF \E i \in 1..Len(found.matches) : ~found.matches[i].has_name
                THEN Raised("KeyError")
                ELSE [text |-> "Found {n} project(s) matching '{keyword}':",
                      n |-> Len(found.matches)],
                <<>>)

\* longest issue_id string
MaxIdLen == 2

IdChars == {"1", "-", "x"}

IssueIds == SeqsUpTo(IdChars, MaxIdLen)

Limits == {<<"1">>, <<"x">>}

ProjectIds == {null, <<>>, <<"1">>, <<"x">>}

ToolQueries == {<<>>} \cup LoaderQueries

GoodItem ==
    JObject([id |-> JNumber(1), name |-> JString(<<"a">>), subject |-> JString(<<"a">>)])

BadItem == JObject([id |-> JNumber(1)])

\* what a client method does: raise (HTTP error status, no connection) or
\* return the list of the response
ListOutcomes ==
    {Raised("HTTPStatusError"), JArray(<<>>), JArray(<<GoodItem>>), JArray(<<BadItem>>)}

IssueOutcomes == {Raised("HTTPStatusError"), JObject(<<>>), GoodItem, BadItem}

CreateOutcomes ==
    {Raised("HTTPStatusError"), JObject([issue |-> GoodItem]), JObject(<<>>),
     JObject([issue |-> JNull]), JArray(<<>>)}

UpdateOutcomes == {Raised("HTTPStatusError"), JNull}

\* a loader whose four lists were all loaded from the data value v
LoaderOf(v) ==
    [load_metadata(NewLoader([kind |-> "json", top |->
        JObject([endpoints |-> JObject([m \in MethodNames |-> JObject([data |-> v])])])]))
     EXCEPT !.loaded = TRUE]

ToolLoaders ==
    {LoaderOf(v) : v \in DataValues
                     \cup {JArray(<<[id |-> 1, has_name |-> FALSE, name |-> <<>>]>>)}}

\* one tool call: the body runs inside "try", the except clause answers
ToolCall(name, arg, body, what) ==
    LET r == guarded(body, what)
    IN  /\ op' = [name |-> name, cid |-> "none", arg |-> arg,
                  exc |-> IF IsRaised(body.result) THEN body.result.exc ELSE "none"]
        /\ ret' = r.result
        /\ client' = [client EXCEPT !.calls = r.calls]
        /\ UNCHANGED <<chat_vars, loader, factory, news, limiter>>

GetRedmineProjects(limit, outcome) ==
    ToolCall("get_redmine_projects", limit,
             get_redmine_projects_body(client, limit, outcome), " fetching projects: ")

GetRedmineIssues(project_id, limit, outcome) ==
    ToolCall("get_redmine_issues", project_id,
             get_redmine_issues_body(client, project_id, limit, outcome), " fetching issues: ")

GetRedmineIssueDetails(issue_id, outcome) ==
    ToolCall("get_redmine_issue_details", issue_id,
             get_redmine_issue_details_body(client, issue_id, outcome),
             " fetching issue #{issue_id}: ")

CreateRedmineIssue(project_id, outcome) ==
    ToolCall("create_redmine_issue", project_id,
             create_redmine_issue_body(client, project_id, outcome), " creating issue: ")

UpdateRedmineIssue(issue_id, with_status, statuses, outcome) ==
    ToolCall("update_redmine_issue", issue_id,
             update_redmine_issue_body(client, issue_id, with_status, statuses, outcome),
             " updating issue #{issue_id}: ")

GetRedmineTimeEntries(project_id, limit, outcome) ==
    ToolCall("get_redmine_time_entries", project_id,
             get_redmine_time_entries_body(client, project_id, limit, outcome),
             " fetching time entries: ")

GetRedmineMetadata(statuses, priorities, trackers) ==
    ToolCall("get_redmine_metadata", <<>>,
             get_redmine_metadata_body(client, statuses, priorities, trackers),
             " fetching metadata: ")

SearchRedmineIssues(limit, outcome) ==
    ToolCall("search_redmine_issues", limit,
             search_redmine_issues_body(client, limit, outcome), " searching issues: ")

GetProjectInfoByName(project_name) ==
    ToolCall("get_project_info_by_name", project_name,
             get_project_info_by_name_body(loader, project_name), ": ")

ListAllAvailableResources ==
    ToolCall("list_all_available_resources", <<>>,
             list_all_available_resources_body(loader), ": ")

SearchProjectsByKeyword(keyword) ==
    ToolCall("search_projects_by_keyword", keyword,
             search_projects_by_keyword_body(loader, keyword), ": ")

GetStatusIdByName(status_name) ==
    ToolCall("get_status_id_by_name", status_name,
             get_status_id_by_name_body(loader, status_name), ": ")

GetPriorityIdByName(priority_name) ==
    ToolCall("get_priority_id_by_name", priority_name,
             get_priority_id_by_name_body(loader, priority_name), ": ")

redmine_tools ==
    \/ \E limit \in Limits, outcome \in ListOutcomes : GetRedmineProjects(limit, outcome)
    \/ \E project_id \in ProjectIds, limit \in Limits, outcome \in ListOutcomes :
            GetRedmineIssues(project_id, limit, outcome)
    \/ \E issue_id \in IssueIds, outcome \in IssueOutcomes :
            GetRedmineIssueDetails(issue_id, outcome)
    \/ \E project_id \in Limits, outcome \in CreateOutcomes :
            CreateRedmineIssue(project_id, outcome)
    \/ \E issue_id \in Limits, with_status \in BOOLEAN, statuses \in ListOutcomes,
          outcome \in UpdateOutcomes :
            UpdateRedmineIssue(issue_id, with_status, statuses, outcome)
    \/ \E project_id \in ProjectIds, limit \in Limits, outcome \in ListOutcomes :
            GetRedmineTimeEntries(project_id, limit, outcome)
    \/ \E statuses \in ListOutcomes, priorities \in ListOutcomes, trackers \in ListOutcomes :
            GetRedmineMetadata(statuses, priorities, trackers)
    \/ \E limit \in Limits, outcome \in ListOutcomes : SearchRedmineIssues(limit, outcome)

enhanced_tools ==
    \/ \E project_name \in ToolQueries : GetProjectInfoByName(project_name)
    \/ ListAllAvailableResources
    \/ \E keyword \in ToolQueries : SearchProjectsByKeyword(keyword)
    \/ \E status_name \in ToolQueries : GetStatusIdByName(status_name)
    \/ \E priority_name \in ToolQueries : GetPriorityIdByName(priority_name)

ToolOp == redmine_tools \/ enhanced_tools

(* ------------------------------ LLMFactory ----------------------------- *)
\* factory.providers is LLMFactory._providers, factory.settings the Settings
\* object built once when src.core.config is imported, factory.environ the
\* GROQ_API_KEY entry of os.environ as it is now.

\* Python's None where a string may stand
PyNone == "<None>"

\* "x or default" on an Optional[str]
or_else(x, default) == IF x \in {PyNone, ""} THEN default ELSE x

_providers == [groq |-> "GroqLLM", openai |-> "OpenAILLM"]

\* BaseLLM.__init__ and the key check of each class; a class registered
\* from outside only runs BaseLLM.__init__
construct(llm_class, model_name, S) ==
    LET base == [class |-> llm_class, model_name |-> or_else(model_name, S.default_model)]
    IN  CASE llm_class = "GroqLLM" ->
                IF S.groq_api_key = "" THEN Raised("ConfigurationException") ELSE base
          [] llm_class = "OpenAILLM" ->
                IF S.openai_api_key = "" THEN Raised("ConfigurationException")
                ELSE [base EXCEPT !.model_name =
                        or_else(or_else(model_name, "gpt-4"), S.default_model)]
          [] OTHER -> base

\* create that falls back to the default provider for an unknown name
create_default_for_unknown(F, provider, model_name) ==
    LET name == or_else(provider, F.settings.default_llm_provider)
        known == IF name \in DOMAIN F.providers THEN name
                 ELSE F.settings.default_llm_provider
    IN  [constructed |-> F.providers[known],
         result |-> construct(F.providers[known], model_name, F.settings)]

\* LLMFactory.create: the class whose constructor ran, and what came back
create(F, provider, model_name) ==
    LET name == or_else(provider, F.settings.default_llm_provider)
    IN  IF name \notin DOMAIN F.providers
        THEN [constructed |-> "none", result |-> Raised("ConfigurationException")]
        ELSE [constructed |-> F.providers[name],
              result |-> construct(F.providers[name], model_name, F.settings)]

\* cls._providers[name] = llm_class
register_provider(F, name, llm_class) ==
    [F EXCEPT !.providers =
        [n \in DOMAIN F.providers \cup {name} |->
            IF n = name THEN llm_class ELSE F.providers[n]]]

\* Settings() reads the environment once, at import
Settings(groq_api_key, default_llm_provider) ==
    [groq_api_key |-> groq_api_key, openai_api_key |-> "",
     default_llm_provider |-> default_llm_provider,
     default_model |-> "llama-3.3-70b-versatile"]

\* the factory after import in a process whose GROQ_API_KEY is key
NewFactory(key, default_llm_provider) ==
    [providers |-> _providers, environ |-> key,
     settings |-> Settings(or_else(key, ""), default_llm_provider)]

ProviderNames == {"groq", "openai", "custom", "invalid", ""}

RegisteredNames == {"groq", "custom", ""}

RegisteredClasses == {"GroqLLM", "CustomLLM"}

ModelNames == {PyNone, "m"}

EnvKeys == {PyNone, "test-key"}

FactoryCall(name, provider) ==
    /\ op' = [name |-> name, cid |-> "none", provider |-> provider]
    /\ UNCHANGED <<chat_vars, loader, client, news, limiter>>

Create(provider, model_name) ==
    LET c == create(factory, provider, model_name)
    IN  /\ ret' = c
        /\ FactoryCall("LLMFactory.create", provider)
        /\ UNCHANGED factory

RegisterProvider(name, llm_class) ==
    /\ factory' = register_provider(factory, name, llm_class)
    /\ ret' = [registered |-> llm_class]
    /\ FactoryCall("LLMFactory.register_provider", name)

\* monkeypatch.setenv / delenv: os.environ changes, settings does not
SetEnv(key) ==
    /\ factory' = [factory EXCEPT !.environ = key]
    /\ ret' = None
    /\ FactoryCall("setenv", "GROQ_API_KEY")

FactoryOp ==
    \/ \E provider \in ProviderNames \cup {PyNone}, model_name \in ModelNames :
            Create(provider, model_name)
    \/ \E name \in RegisteredNames, llm_class \in RegisteredClasses :
            RegisterProvider(name, llm_class)
    \/ \E key \in EnvKeys : SetEnv(key)

(* ------------------------ NewsSummarizationGraph ----------------------- *)
\* news.pc is the node about to run ("idle" between runs), news.state the
\* NewsSummaryState of the run, news.trace the nodes executed so far.

\* largest max_results passed to run()
MaxResults == 2

news_entry_point == "fetch_news"

\* a graph that skips the rest of the pipeline once a node recorded an error
news_edge_stop_on_error(n, state) ==
    IF state.status = "error" THEN END
    ELSE CASE n = "fetch_news" -> "summarize"
           [] n = "summarize" -> "save_result"
           [] n = "save_result" -> END

\* add_edge: every edge is unconditional
news_edge(n, state) ==
    CASE n = "fetch_news" -> "summarize"
      [] n = "summarize" -> "save_result"
      [] n = "save_result" -> END

\* the error field: f"Failed to ...: {str(e)}"
Failed(what, exc) == [text |-> what, exc |-> exc]

initial_state(query, max_results) ==
    [query |-> query, max_results |-> max_results, news_articles |-> <<>>,
     summary |-> "", saved_path |-> PyNone, error |-> None, status |-> "started"]

\* what the try block of fetch_news_node computes from the search results:
\* a str result reads the unbound name i, other types give no article
fetch_articles(search_results, max_results) ==
    CASE IsRaised(search_results) -> search_results
      [] search_results.type = "string" -> Raised("NameError")
      [] search_results.type = "array" ->
            LET taken == PySliceTo(search_results.items, max_results)
            IN  IF \E i \in 1..Len(taken) : taken[i].type # "object"
                THEN Raised("AttributeError")
                ELSE [articles |-> [i \in 1..Len(taken) |-> [source |-> "web"]]]
      [] OTHER -> [articles |-> <<>>]

fetch_news_node(state, search_results) ==
    LET r == fetch_articles(search_results, state.max_results)
    IN  IF IsRaised(r)
        THEN [state EXCEPT !.news_articles = <<>>,
                           !.error = Failed("Failed to fetch news: ", r.exc),
                           !.status = "error"]
        ELSE [state EXCEPT !.news_articles = r.articles, !.status = "fetched"]

summarize_news_node(state, response) ==
    IF state.news_articles = <<>>
    THEN [state EXCEPT !.summary = "No articles found to summarize.", !.status = "completed"]
    ELSE IF IsRaised(response)
    THEN [state EXCEPT !.summary = "",
                       !.error = Failed("Failed to summarize: ", response.exc),
                       !.status = "error"]
    ELSE [state EXCEPT !.summary = IF "content" \in DOMAIN response THEN response.content
                                   ELSE "str(response)",
                       !.status = "summarized"]

save_result_node(state, written) ==
    IF IsRaised(written)
    THEN [state EXCEPT !.saved_path = PyNone,
                       !.error = Failed("Failed to save: ", written.exc),
                       !.status = "error"]
    ELSE [state EXCEPT !.saved_path = "data/news_summaries/{timestamp}_{query_slug}.json",
                       !.status = "completed"]

NewsQueries == {"q", "two words"}

SearchItems == {JObject([title |-> JString(<<"a">>)]), JString(<<"a">>)}

\* web_search.invoke: no API key, a failed request, an error text, a list
\* of results, or something else
SearchOutcomes ==
    {Raised("ConfigurationException"), Raised("HTTPStatusError"), JString(<<"a">>), JNull}
    \cup {JArray(l) : l \in SeqsUpTo(SearchItems, MaxResults)}

\* llm.invoke: BaseLLM.invoke wraps every failure in LLMException
LLMOutcomes == {Raised("LLMException"), [content |-> "summary"], [text |-> "summary"]}

\* mkdir, open and json.dump
SaveOutcomes == {Raised("OSError"), [written |-> TRUE]}

IdleNews == [pc |-> "idle", trace |-> <<>>, state |-> initial_state("", 0)]

NewsCall(name) ==
    /\ op' = [name |-> name, cid |-> "none"]
    /\ UNCHANGED <<chat_vars, loader, client, factory, limiter>>

\* run / arun: graph.invoke(initial_state)
NewsRun(query, max_results) ==
    /\ news.pc = "idle"
    /\ news' = [pc |-> news_entry_point, trace |-> <<>>,
                state |-> initial_state(query, max_results)]
    /\ ret' = None
    /\ NewsCall("run")

NewsNode(n, state) ==
    /\ news' = [pc |-> news_edge(n, state), trace |-> Append(news.trace, n), state |-> state]
    /\ ret' = None
    /\ NewsCall(n)

FetchNews(search_results) ==
    /\ news.pc = "fetch_news"
    /\ NewsNode("fetch_news", fetch_news_node(news.state, search_results))

Summarize(response) ==
    /\ news.pc = "summarize"
    /\ NewsNode("summarize", summarize_news_node(news.state, response))

SaveResult(written) ==
    /\ news.pc = "save_result"
    /\ NewsNode("save_result", save_result_node(news.state, written))

\* graph.invoke returns the final state
NewsReturns ==
    /\ news.pc = END
    /\ news' = [news EXCEPT !.pc = "idle"]
    /\ ret' = news.state
    /\ NewsCall("run returns")

NewsStep ==
    \/ \E search_results \in SearchOutcomes : FetchNews(search_results)
    \/ \E response \in LLMOutcomes : Summarize(response)
    \/ \E written \in SaveOutcomes : SaveResult(written)

(* ----------------------- middlewares of the application ---------------- *)
\* limiter.stack is the application's middleware stack, outermost first;
\* limiter.requests is RateLimitMiddleware.requests, limiter.time the value
\* of time(), limiter.passed the timestamps of the requests of each client
\* that reached call_next of the rate limiter (all requests without one).

\* max_requests of the limiter under check (rate_limit_per_minute = 60 in
\* the production application)
max_requests == 2

\* window_seconds of the limiter under check (60 in the production
\* application)
window_seconds == 2

\* time() takes the values 0..MaxClock
MaxClock == 4

\* without a rate limiter an application serves any number of requests; the
\* runs under check stop at MaxServed per client
MaxServed == max_requests + 1

ClientIps == {"10.0.0.1", "10.0.0.2"}

\* app.add_middleware puts the new middleware in front of the ones added
\* before it: the middleware added last is the outermost
add_middleware(stack, mw) == <<mw>> \o stack

\* the add_middleware calls of create_application, in their order
create_application(is_production) ==
    LET common == add_middleware(add_middleware(add_middleware(add_middleware(<<>>,
                      "CORSMiddleware"), "CORSHeadersMiddleware"),
                      "ErrorHandlerMiddleware"), "LoggingMiddleware")
    IN  IF is_production THEN add_middleware(common, "RateLimitMiddleware") ELSE common

\* an exception of the AgenticAIException family carries a status code
AgenticAIException(exc, status_code) ==
    [kind |-> "raise", exc |-> exc, status_code |-> status_code]

RateLimitException == AgenticAIException("RateLimitException", 429)

IsException(r) == "kind" \in DOMAIN r /\ r.kind = "raise"

IsAgenticAIException(r) == IsException(r) /\ "status_code" \in DOMAIN r

JSONResponse(status_code, by) == [status_code |-> status_code, media |-> "json", by |-> by]

\* Starlette's outermost layer answers an exception nobody caught
ServerErrorMiddleware(r) ==
    IF IsException(r)
    THEN [status_code |-> 500, media |-> "text", by |-> "ServerErrorMiddleware"]
    ELSE r

\* the entries of one client that "Clean old entries" keeps
clean(entries, current_time) ==
    SelectSeq(entries, LAMBDA e : current_time - e[1] < window_seconds)

RECURSIVE sum_counts(_)
sum_counts(entries) ==
    IF entries = <<>> THEN 0 ELSE Head(entries)[2] + sum_counts(Tail(entries))

entries_of(requests, client_ip) ==
    IF client_ip \in DOMAIN requests THEN requests[client_ip] ELSE <<>>

\* a limiter that rejects only above max_requests
rate_limit_above_max(requests, client_ip, current_time) ==
    LET cleaned == clean(entries_of(requests, client_ip), current_time)
        allowed == ~(sum_counts(cleaned) > max_requests)
        kept == IF allowed THEN Append(cleaned, <<current_time, 1>>) ELSE cleaned
    IN  [allowed |-> allowed,
         requests |-> [ip \in DOMAIN requests \cup {client_ip} |->
                          IF ip = client_ip THEN kept ELSE requests[ip]]]

\* RateLimitMiddleware.dispatch up to call_next: clean, count, reject or record
rate_limit(requests, client_ip, current_time) ==
    LET cleaned == clean(entries_of(requests, client_ip), current_time)
        allowed == ~(sum_counts(cleaned) >= max_requests)
        kept == IF allowed THEN Append(cleaned, <<current_time, 1>>) ELSE cleaned
    IN  [allowed |-> allowed,
         requests |-> [ip \in DOMAIN requests \cup {client_ip} |->
                          IF ip = client_ip THEN kept ELSE requests[ip]]]

\* dispatch of middleware k and of everything inside it; allowed is the
\* verdict of the rate limiter, handler what the route handler does
RECURSIVE dispatch(_, _, _, _)
dispatch(stack, k, allowed, handler) ==
    IF k > Len(stack) THEN handler
    ELSE LET inner == dispatch(stack, k + 1, allowed, handler)
         IN  CASE stack[k] = "RateLimitMiddleware" ->
                    IF allowed THEN inner ELSE RateLimitException
               [] stack[k] = "ErrorHandlerMiddleware" ->
                    IF IsAgenticAIException(inner)
                    THEN JSONResponse(inner.status_code, "ErrorHandlerMiddleware")
                    ELSE IF IsException(inner)
                    THEN JSONResponse(500, "ErrorHandlerMiddleware")
                    ELSE inner
               [] OTHER -> inner

\* what a route handler does with a request
HandlerOutcomes ==
    {JSONResponse(200, "handler"), AgenticAIException("LLMException", 500), Raised("ValueError")}

NewLimiter(is_production) ==
    [stack |-> create_application(is_production), requests |-> <<>>, time |-> 0,
     passed |-> [ip \in ClientIps |-> <<>>]]

HasLimiter == "RateLimitMiddleware" \in Range(limiter.stack)

LimiterCall(name, client_ip, rejected) ==
    /\ op' = [name |-> name, cid |-> "none", client_ip |-> client_ip, rejected |-> rejected]
    /\ UNCHANGED <<chat_vars, loader, client, factory, news>>

\* one HTTP request through the whole stack
Request(client_ip, handler) ==
    LET r == IF HasLimiter THEN rate_limit(limiter.requests, client_ip, limiter.time)
             ELSE [allowed |-> TRUE, requests |-> limiter.requests]
    IN  /\ HasLimiter \/ Len(limiter.passed[client_ip]) < MaxServed
        /\ limiter' = [limiter EXCEPT
                          !.requests = r.requests,
                          !.passed[client_ip] =
                              IF r.allowed THEN Append(@, limiter.time) ELSE @]
        /\ ret' = ServerErrorMiddleware(dispatch(limiter.stack, 1, r.allowed, handler))
        /\ LimiterCall("request", client_ip, ~r.allowed)

\* time passes
Tick ==
    /\ limiter.time < MaxClock
    /\ limiter' = [limiter EXCEPT !.time = @ + 1]
    /\ ret' = None
    /\ LimiterCall("tick", "none", FALSE)

LimiterOp ==
    \/ \E client_ip \in ClientIps, handler \in HandlerOutcomes : Request(client_ip, handler)
    \/ Tick

(* ----------------------------- specification --------------------------- *)

\* the services as the chat application finds them: no metadata file
InitServices ==
    /\ loader = [load_metadata(NewLoader([kind |-> "missing"])) EXCEPT !.loaded = TRUE]
    /\ client = [configured |-> FALSE, calls |-> <<>>]
    /\ factory = NewFactory("test-key", "groq")
    /\ news = IdleNews
    /\ limiter = NewLimiter(FALSE)

Init ==
    /\ InitServices
    /\ conversations = <<>>
    /\ metadata = <<>>
    /\ now = 0
    /\ run = IdleRun
    /\ calls = {}
    /\ op = NoOp
    /\ ret = None
    /\ snapshot = [projects |-> <<>>, statuses |-> <<>>, priorities |-> <<>>, trackers |-> <<>>]

Next == Chat \/ RedmineChat \/ DirectChat \/ GraphStep

Spec == Init /\ [][Next]_vars

NextMem == ManagerOp

SpecMem == Init /\ [][NextMem]_vars

\* the loader after construction from any metadata file
InitMeta ==
    /\ InitServices
    /\ conversations = <<>>
    /\ metadata = <<>>
    /\ now = 0
    /\ run = IdleRun
    /\ calls = {}
    /\ op = NoOp
    /\ ret = None
    /\ snapshot \in Snapshots

NextMeta == MetadataOp

SpecMeta == InitMeta /\ [][NextMeta]_vars

\* a loader under construction over any metadata file
InitLoad ==
    /\ conversations = <<>>
    /\ metadata = <<>>
    /\ now = 0
    /\ run = IdleRun
    /\ calls = {}
    /\ op = NoOp
    /\ ret = None
    /\ snapshot = [projects |-> <<>>, statuses |-> <<>>, priorities |-> <<>>, trackers |-> <<>>]
    /\ loader \in {NewLoader(file) : file \in Files}
    /\ client = [configured |-> FALSE, calls |-> <<>>]
    /\ factory = NewFactory("test-key", "groq")
    /\ news = IdleNews
    /\ limiter = NewLimiter(FALSE)

NextLoad == LoaderOp

SpecLoad == InitLoad /\ [][NextLoad]_vars

\* the tools over a configured or unconfigured client and a loaded loader
InitTools ==
    /\ conversations = <<>>
    /\ metadata = <<>>
    /\ now = 0
    /\ run = IdleRun
    /\ calls = {}
    /\ op = NoOp
    /\ ret = None
    /\ snapshot = [projects |-> <<>>, statuses |-> <<>>, priorities |-> <<>>, trackers |-> <<>>]
    /\ loader \in ToolLoaders
    /\ client \in {[configured |-> b, calls |-> <<>>] : b \in BOOLEAN}
    /\ factory = NewFactory("test-key", "groq")
    /\ news = IdleNews
    /\ limiter = NewLimiter(FALSE)

NextTools == ToolOp

SpecTools == InitTools /\ [][NextTools]_vars

\* the factory after import, with or without GROQ_API_KEY in the environment
InitFactory ==
    /\ conversations = <<>>
    /\ metadata = <<>>
    /\ now = 0
    /\ run = IdleRun
    /\ calls = {}
    /\ op = NoOp
    /\ ret = None
    /\ snapshot = [projects |-> <<>>, statuses |-> <<>>, priorities |-> <<>>, trackers |-> <<>>]
    /\ loader = [load_metadata(NewLoader([kind |-> "missing"])) EXCEPT !.loaded = TRUE]
    /\ client = [configured |-> FALSE, calls |-> <<>>]
    /\ factory \in {NewFactory(key, d) : key \in EnvKeys, d \in {"groq", "openai"}}
    /\ news = IdleNews
    /\ limiter = NewLimiter(FALSE)

NextFactory == FactoryOp

SpecFactory == InitFactory /\ [][NextFactory]_vars

NextNews ==
    \/ \E query \in NewsQueries, max_results \in 0..MaxResults : NewsRun(query, max_results)
    \/ NewsStep
    \/ NewsReturns

SpecNews == Init /\ [][NextNews]_vars

\* graph.invoke runs the nodes one after the other without waiting for
\* anything but the calls a node makes, and each node returns
SpecNewsFair == SpecNews /\ WF_vars(NewsStep)

\* the application as built for production or for development
InitLimiter ==
    /\ conversations = <<>>
    /\ metadata = <<>>
    /\ now = 0
    /\ run = IdleRun
    /\ calls = {}
    /\ op = NoOp
    /\ ret = None
    /\ snapshot = [projects |-> <<>>, statuses |-> <<>>, priorities |-> <<>>, trackers |-> <<>>]
    /\ loader = [load_metadata(NewLoader([kind |-> "missing"])) EXCEPT !.loaded = TRUE]
    /\ client = [configured |-> FALSE, calls |-> <<>>]
    /\ factory = NewFactory("test-key", "groq")
    /\ news = IdleNews
    /\ limiter \in {NewLimiter(is_production) : is_production \in BOOLEAN}

NextLimiter == LimiterOp

SpecLimiter == InitLimiter /\ [][NextLimiter]_vars

(* ------------------------------- claims -------------------------------- *)

StoreNext == [conv |-> conversations', meta |-> metadata']

ListedIds(S) == {r.conversation_id : r \in list_conversations(S)}

\* the last n elements of s, in order
LastN(s, n) == [i \in 1..n |-> s[Len(s) - n + i]]

\* every conversation other than cid is the same before and after the step
OthersUntouched(cid) ==
    /\ DOMAIN conversations' \ {cid} = DOMAIN conversations \ {cid}
    /\ DOMAIN metadata' \ {cid} = DOMAIN metadata \ {cid}
    /\ \A k \in DOMAIN conversations \ {cid} :
        /\ conversations'[k] = conversations[k]
        /\ metadata'[k] = metadata[k]

\* C1: every stored conversation history holds at most max_messages
\* messages, in every reachable state.
C1_HistoryBounded ==
    \A cid \in DOMAIN conversations : Len(conversations[cid]) <= max_messages

AddNames == {"add_message", "add_user_message", "add_ai_message"}

\* C2: when an add makes the history exceed max_messages, what is stored
\* afterwards is exactly the last max_messages messages of the old history
\* followed by the new message, so the new message is last.
C2_TrimIsFifo ==
    [][op'.name \in AddNames =>
        LET cid == op'.cid
            before == IF cid \in DOMAIN conversations THEN conversations[cid] ELSE <<>>
            all == Append(before, op'.message)
        IN  /\ Len(all) > max_messages =>
                /\ conversations'[cid] = LastN(all, max_messages)
                /\ conversations'[cid][max_messages] = op'.message
            /\ Len(all) <= max_messages => conversations'[cid] = all
    ]_vars

\* an add that found the history full and dropped its oldest message
C2_Witness ==
    /\ op.name \in AddNames
    /\ op.len = max_messages
    /\ Len(conversations[op.cid]) = max_messages
    /\ conversations[op.cid][max_messages] = op.message
    /\ conversations[op.cid][1].type # conversations[op.cid][max_messages].type

GetOrCreateNames ==
    {"get_history", "get_messages", "get_recent_messages", "get_conversation_summary"}

\* C6: a get on a known ID changes nothing but that ID's last_activity and
\* hands back the existing history; a get on an unknown ID creates an empty
\* history with message_count 0, and the ID is then listed.
C6_GetOrCreate ==
    [][op'.name \in GetOrCreateNames =>
        LET cid == op'.cid
        IN  /\ OthersUntouched(cid)
            /\ IF cid \in DOMAIN conversations
               THEN /\ conversations'[cid] = conversations[cid]
                    /\ metadata'[cid].message_count = metadata[cid].message_count
                    /\ metadata'[cid].created_at = metadata[cid].created_at
                    /\ op'.name \in {"get_history", "get_messages"} =>
                           ret'.messages = conversations[cid]
               ELSE /\ conversations'[cid] = <<>>
                    /\ metadata'[cid].message_count = 0
                    /\ cid \in ListedIds(StoreNext)
    ]_vars

\* a read of an unknown ID has just put it in the listing, next to a
\* conversation that holds messages
C6_Witness ==
    /\ op.name \in {"get_messages", "get_recent_messages", "get_conversation_summary"}
    /\ ~op.known
    /\ op.cid \in ListedIds(Store)
    /\ \E k \in DOMAIN conversations : k # op.cid /\ conversations[k] # <<>>

\* C7: clear on a known ID empties the history and zeroes message_count,
\* keeps the ID listed with its created_at, and touches no other
\* conversation; on an unknown ID it changes nothing.
C7_ClearKeepsConversation ==
    [][op'.name = "clear_conversation" =>
        LET cid == op'.cid
        IN  IF cid \in DOMAIN conversations
            THEN /\ conversations'[cid] = <<>>
                 /\ metadata'[cid].message_count = 0
                 /\ metadata'[cid].created_at = metadata[cid].created_at
                 /\ cid \in ListedIds(StoreNext)
                 /\ OthersUntouched(cid)
            ELSE /\ conversations' = conversations
                 /\ metadata' = metadata
    ]_vars

\* a conversation that held messages was cleared while another one exists
C7_Witness ==
    /\ op.name = "clear_conversation"
    /\ op.known
    /\ op.len > 0
    /\ conversations[op.cid] = <<>>
    /\ \E k \in DOMAIN conversations : k # op.cid /\ conversations[k] # <<>>

\* C8: delete removes the ID from both maps (its metadata reads as {} and
\* the listing omits it) and leaves every other conversation as it was;
\* deleting an unknown ID changes nothing.
C8_DeleteRemoves ==
    [][op'.name = "delete_conversation" =>
        LET cid == op'.cid
        IN  IF cid \in DOMAIN conversations
            THEN /\ cid \notin DOMAIN conversations'
                 /\ cid \notin DOMAIN metadata'
                 /\ get_conversation_metadata(StoreNext, cid) = [empty |-> TRUE]
                 /\ cid \notin ListedIds(StoreNext)
                 /\ OthersUntouched(cid)
            ELSE /\ conversations' = conversations
                 /\ metadata' = metadata
    ]_vars

\* a conversation that held messages was deleted and another one remains
C8_Witness ==
    /\ op.name = "delete_conversation"
    /\ op.known
    /\ op.len > 0
    /\ op.cid \notin DOMAIN conversations
    /\ \E k \in DOMAIN conversations : conversations[k] # <<>>

\* C9: get_recent_messages(cid, n) returns the last min(n, length) messages
\* of the conversation, so never more than n.
C9_RecentIsLastN ==
    op.name = "get_recent_messages" =>
        /\ ret.messages = LastN(conversations[op.cid], Min(op.n, Len(conversations[op.cid])))
        /\ Len(ret.messages) <= op.n

StartNames == {"chat", "achat", "POST /redmine/chat"}

LastOf(s) == s[Len(s)]

ToolMessagesOf(s) == {s[i] : i \in {j \in 1..Len(s) : s[j].type = "tool"}}

\* C3: a run starts at the chatbot node; after a chatbot step the next
\* node is tools exactly when the last message carries tool calls, and the
\* run ends otherwise; after a tools step the next node is chatbot.
C3_GraphControlFlow ==
    [][/\ op'.name \in StartNames => run'.pc = "chatbot"
       /\ op'.name = "chatbot" =>
            /\ run'.pc = "tools" <=> LastOf(run'.messages).tool_calls > 0
            /\ run'.pc # "tools" => run'.pc = END
       /\ op'.name = "tools" => run'.pc = "chatbot"
    ]_vars

\* the tools node has just run on an LLM response with tool calls and the
\* chatbot node is next
C3_Witness ==
    /\ op.name = "tools"
    /\ run.pc = "chatbot"
    /\ \E i \in 1..Len(run.messages) : run.messages[i].tool_calls > 0

\* C4: the list given to the LLM at a chatbot step holds every tool result
\* in the state; a tools step never ends the run; the last message of a
\* finished run is an LLM response without tool calls.
C4_ToolResultsFedBack ==
    [][/\ op'.name \in {"chatbot", "chatbot raises"} =>
            ToolMessagesOf(run.messages) \subseteq Range(run'.llm_input)
       /\ op'.name = "tools" =>
            /\ run'.pc # END
            /\ Len(run'.messages) = Len(run.messages) + LastOf(run.messages).tool_calls
       /\ run'.pc = END =>
            /\ LastOf(run'.messages).type = "ai"
            /\ LastOf(run'.messages).tool_calls = 0
    ]_vars

\* a finished run whose LLM saw the results of a round of two tool calls
C4_Witness ==
    /\ run.pc = END
    /\ Cardinality(ToolMessagesOf(run.messages)) >= 2
    /\ ToolMessagesOf(run.messages) \subseteq Range(run.llm_input)
    /\ LastOf(run.messages).tool_calls = 0

LookupList ==
    [get_project_by_name |-> snapshot.projects,
     get_status_by_name |-> snapshot.statuses,
     get_priority_by_name |-> snapshot.priorities,
     get_tracker_by_name |-> snapshot.trackers]

\* the two strings are equal up to the case of their characters
SameIgnoringCase(x, y) ==
    /\ Len(x) = Len(y)
    /\ \A i \in 1..Len(x) : LowerChar(x[i]) = LowerChar(y[i])

\* some window of the entry's name equals the query up to case
NameContains(entry, query) ==
    \E i \in 0..(Len(get_name(entry)) - Len(query)) :
        SameIgnoringCase(SubSeq(get_name(entry), i + 1, i + Len(query)), query)

\* C10: a by-name lookup returns the first entry of its list, in snapshot
\* order, whose name contains the query ignoring case, returns None when no
\* entry does, and leaves the snapshot as it was.
C10_LookupFirstMatch ==
    [][op'.name \in DOMAIN LookupList =>
        LET entries == LookupList[op'.name]
            hits == {i \in 1..Len(entries) : NameContains(entries[i], op'.query)}
        IN  /\ snapshot' = snapshot
            /\ IF hits = {}
               THEN ret'.result = None
               ELSE \E i \in hits :
                        /\ \A j \in hits : i <= j
                        /\ ret'.result = entries[i]
    ]_vars

\* a query found the second entry of its list, the first one not matching,
\* through a name stored in another case than the lowered query
C10_Witness ==
    /\ op.name \in DOMAIN LookupList
    /\ Len(LookupList[op.name]) >= 2
    /\ ret.result = LookupList[op.name][2]
    /\ ret.result # LookupList[op.name][1]
    /\ ~str_in(lower(op.query), get_name(ret.result))

\* C11: load_metadata never raises, and after it the loader is usable whatever
\* the metadata file held: projects, statuses, priorities and trackers are
\* lists, no by-name lookup and no formatted listing raises, and on an empty
\* list the lookup returns None and the listing its "No ... available." text.
C11_LoaderStaysUsable ==
    loader.loaded =>
        /\ \A f \in Fields : loader[f].type = "array"
        /\ \A f \in Fields :
              op.name \in {ByNameOps[f], FormattedOps[f]} => ~IsRaised(ret)
        /\ \A f \in Fields :
              (op.name = ByNameOps[f] /\ loader[f] = JArray(<<>>)) => ret = None
        /\ \A f \in Fields :
              (op.name = FormattedOps[f] /\ loader[f] = JArray(<<>>)) => ret = NoneAvailable[f]

ToolNames ==
    {"get_redmine_projects", "get_redmine_issues", "get_redmine_issue_details",
     "create_redmine_issue", "update_redmine_issue", "get_redmine_time_entries",
     "get_redmine_metadata", "search_redmine_issues", "get_project_info_by_name",
     "list_all_available_resources", "search_projects_by_keyword",
     "get_status_id_by_name", "get_priority_id_by_name"}

\* C12: every tool of redmine_tools and enhanced_tools returns a string and
\* never raises: whenever its body raised (a client or loader exception, the
\* client being None included), the returned string starts with "Error" and
\* carries that exception's text.
C12_ToolsNeverRaise ==
    [][op'.name \in ToolNames =>
          /\ IsText(ret')
          /\ ~IsRaised(ret')
          /\ op'.exc # "none" => (StartsWithError(ret') /\ ret'.exc = op'.exc)]_vars

\* an unconfigured client made get_redmine_projects answer with an AttributeError text
C12_Witness ==
    /\ op.name = "get_redmine_projects"
    /\ ~client.configured
    /\ op.exc = "AttributeError"
    /\ StartsWithError(ret)

\* C13: get_redmine_issue_details answers every issue_id that is not a valid
\* integer with the "'<issue_id>' is not a valid issue ID..." message and
\* without calling the Redmine API; the API is called only for an integer.
C13_NumericIssueIdRequired ==
    [][op'.name = "get_redmine_issue_details" =>
          /\ ~is_int(op'.arg) => (ret' = NotValidIssueId(op'.arg) /\ client'.calls = <<>>)
          /\ client'.calls # <<>> => is_int(op'.arg)]_vars

\* C14 as stated: create with any provider name that is not registered raises
\* ConfigurationException and constructs no LLM, and create with a registered
\* name builds an instance of the class registered under that name (its
\* constructor runs, and the instance is returned unless the constructor
\* itself raises).
C14_CreateByRegistry ==
    [][op'.name = "LLMFactory.create" /\ op'.provider # PyNone =>
          IF op'.provider \in DOMAIN factory.providers
          THEN /\ ret'.constructed = factory.providers[op'.provider]
               /\ IsRaised(ret'.result) \/ ret'.result.class = factory.providers[op'.provider]
          ELSE ret' = [constructed |-> "none",
                       result |-> Raised("ConfigurationException")]]_vars

\* C14 (amended): create with a non-empty provider name that is not registered
\* raises ConfigurationException and runs no constructor; with a registered
\* non-empty name it runs the constructor of the class registered under that
\* name and returns its instance unless that constructor raises; an empty
\* name is looked up as settings.default_llm_provider.
C14_CreateByNonEmptyName ==
    [][op'.name = "LLMFactory.create" /\ op'.provider # PyNone =>
          LET name == IF op'.provider = "" THEN factory.settings.default_llm_provider
                      ELSE op'.provider
          IN  IF name \in DOMAIN factory.providers
              THEN /\ ret'.constructed = factory.providers[name]
                   /\ IsRaised(ret'.result) \/ ret'.result.class = factory.providers[name]
              ELSE ret' = [constructed |-> "none",
                           result |-> Raised("ConfigurationException")]]_vars

\* a provider registered under a new name was created, and an unknown name refused
C14_Witness ==
    /\ op.name = "LLMFactory.create"
    /\ \/ /\ op.provider = "custom"
          /\ "custom" \in DOMAIN factory.providers
          /\ ~IsRaised(ret.result)
          /\ ret.result.class = factory.providers["custom"]
       \/ /\ op.provider = "invalid"
          /\ ret.constructed = "none"

\* C15: whenever GROQ_API_KEY is set in the environment when
\* create(provider="groq") is called, the call returns an LLM whose model_name
\* is not None.
C15_GroqKeyAtCallTime ==
    [][(/\ op'.name = "LLMFactory.create"
        /\ op'.provider = "groq"
        /\ factory.environ # PyNone) =>
          (~IsRaised(ret'.result) /\ ret'.result.model_name # PyNone)]_vars

Pipeline == <<"fetch_news", "summarize", "save_result">>

\* C16: every run of the news workflow executes fetch_news, then summarize,
\* then save_result, each exactly once and in that order, and then ends,
\* whether or not a node recorded an error.
C16_FixedPipeline ==
    /\ [](news.pc # "idle" =>
            /\ news.trace = SubSeq(Pipeline, 1, Len(news.trace))
            /\ IF news.trace = Pipeline THEN news.pc = END
               ELSE news.pc = Pipeline[Len(news.trace) + 1])
    /\ (news.pc = news_entry_point ~> news.pc = END)

\* a run whose fetch_news recorded an error went through all three nodes
C16_Witness ==
    /\ news.pc = END
    /\ news.trace = Pipeline
    /\ news.state.error = Failed("Failed to fetch news: ", "ConfigurationException")

\* the requests of client_ip passed downstream with a timestamp in (t - window_seconds, t]
PassedInWindow(client_ip, t) ==
    {i \in 1..Len(limiter.passed[client_ip]) :
        t - window_seconds < limiter.passed[client_ip][i] /\ limiter.passed[client_ip][i] <= t}

\* C17: with the rate limiter installed, for every client IP and every instant
\* t at most max_requests requests of that IP received in
\* (t - window_seconds, t] are passed downstream, and a rejected request is
\* not recorded: it leaves no entry in requests.
C17_RateLimitPerIp ==
    /\ [](HasLimiter =>
            \A client_ip \in ClientIps, t \in 0..MaxClock :
                Cardinality(PassedInWindow(client_ip, t)) <= max_requests)
    /\ [][(op'.name = "request" /\ op'.rejected) =>
            /\ limiter'.passed = limiter.passed
            /\ limiter'.requests[op'.client_ip] =
                    clean(entries_of(limiter.requests, op'.client_ip), limiter.time)]_vars

\* a client was rejected with max_requests requests in the window, then
\* served again once the window had moved on
C17_Witness ==
    /\ HasLimiter
    /\ op.name = "request"
    /\ ~op.rejected
    /\ Len(limiter.passed[op.client_ip]) = max_requests + 1
    /\ Cardinality(PassedInWindow(op.client_ip, limiter.time)) = 1

\* C18: in the production application a request rejected by the rate limiter
\* is answered with a 429 JSON error response produced by
\* ErrorHandlerMiddleware.
C18_RejectedGets429 ==
    [][(op'.name = "request" /\ op'.rejected) =>
          ret' = JSONResponse(429, "ErrorHandlerMiddleware")]_vars

\* the stored history of cid, empty for a conversation not yet created
StoredBefore(cid) == IF cid \in DOMAIN conversations THEN conversations[cid] ELSE <<>>

\* C19: a successful POST /redmine/chat grows the stored history by exactly
\* two messages, the user's message followed by the assistant's reply, on the
\* first turn and on every later turn: nothing is stored while the graph
\* runs, and the two messages are appended (and the list trimmed to
\* max_messages) when the turn is saved.
C19_TurnAddsTwo ==
    [][/\ op'.name = "POST /redmine/chat" =>
            conversations'[op'.cid] = StoredBefore(op'.cid)
       /\ op'.name = "POST /redmine/chat 200" =>
            LET grown == conversations[op'.cid]
                            \o <<HumanMessage(run.message), AIMessage(ret'.message)>>
            IN  conversations'[op'.cid] = LastN(grown, Min(Len(grown), max_messages))]_vars

\* C20: in POST /chat the graph input is the messages stored before the
\* request followed by exactly one copy of the new user message, and
\* history_length is the number of messages stored before the request.
C20_GraphInputIsHistoryPlusOne ==
    [][op'.name = "POST /chat 200" =>
          /\ ret'.graph_input = StoredBefore(op'.cid) \o <<HumanMessage(op'.message)>>
          /\ ret'.history_length = Len(StoredBefore(op'.cid))]_vars

\* C21: in the final state of every news workflow run, status "completed"
\* (success = true in the API response) implies that error is None: a run in
\* which fetch_news, summarize or save_result recorded an error never ends
\* as completed.
C21_CompletedMeansNoError ==
    news.pc = END =>
        (news.state.status = "completed" => news.state.error = None)

====
